---- MODULE Spec2Model ----
(***************************************************************************)
(* State-machine model of ext/micro_mcp/src/server.rs: the tool and prompt *)
(* registries behind their mutexes, the request dispatcher with the        *)
(* request-scoped runtime capability (RubyMcpServer), the host lock (GVL)  *)
(* bridge, and the start/stop lifecycle with its three-way select.         *)
(***************************************************************************)
EXTENDS Integers, Sequences, FiniteSets, TLC

\* ------------------------------------------------------------------ bounds
MaxReqs == 2      \* requests received over a run; all may be in flight at once
MaxRegs == 2      \* register_tool / register_prompt calls over a run
MaxStarts == 2    \* start() calls over a run

Names == {"a", "b"}
RegChoices == {<<"d1", "p1">>, <<"d2", "p2">>}   \* (description, handler Proc)
Kinds == {"call_tool", "get_prompt", "list_tools", "list_prompts"}
Methods == {"is_initialized", "client_supports_sampling",
            "create_message", "create_message_bad_params"}

\* ------------------------------------------------------------------ host lock
\* with_gvl(f): runs f under the host lock and hands back what f produced: a
\* value, a host error carried in the value, or f's panic passed on
WithGvlOutcomes == {"ok", "err", "panic"}

\* ------------------------------------------------------------------ threads
NoThread == <<"none", 0>>
MainThread == <<"main", 0>>      \* the host thread that calls start()
HostThread == <<"host", 0>>      \* another host thread (registers, stops)
ReqThread(r) == <<"req", r>>     \* the async worker dispatching request r

\* ------------------------------------------------------------------ messages
InvalidMsg == "McpServer reference is no longer valid"
MissingFieldMsg == "missing field"
HandlerErrMsg == "handler raised"
MarshalMsg == "marshalling failed"
ToolsPoisonedMsg == "tools mutex poisoned"
PromptsPoisonedMsg == "prompts mutex poisoned"
UnknownPromptMsg == "Unknown prompt"

VARIABLES
  tools,        \* TOOLS: name -> ToolEntry
  prompts,      \* PROMPTS: name -> PromptEntry
  toolsLock,    \* the Mutex around TOOLS: [owner, poisoned]
  promptsLock,  \* the Mutex around PROMPTS
  gvl,          \* holder of the host lock
  host,         \* the registering host thread, and what its last call returned
  left,         \* what the run may still do: requests, registrations, starts
  lastReg,      \* history: kind -> name -> latest registered descriptor, and the one before
  reqs,         \* request number -> the dispatcher's position and locals for it
  caps,         \* capability number -> RubyMcpServer shared cell and its history
  flag,         \* SHUTDOWN_FLAG
  life,         \* the start() call: position, result of block_on, return value
  hist          \* history of the lifecycle: stops seen and what stop() returned, flag at entry

vars == <<tools, prompts, toolsLock, promptsLock, gvl, host, left, lastReg,
          reqs, caps, flag, life, hist>>

ReqIds == 1..MaxReqs

\* ------------------------------------------------------------------ values
NoResp == [channel |-> "none", code |-> "none", text |-> "none", items |-> <<>>]
NoAcc == [on |-> "none", m |-> "none", reached |-> FALSE, sent |-> FALSE]
Unborn ==
  [pc |-> "unborn", kind |-> "none", name |-> "none", found |-> "none", proc |-> "none",
   cap |-> 0,
   outcome |-> "none", exc |-> "none", acc |-> NoAcc,
   want |-> {}, resp |-> NoResp]

FreeLock == [owner |-> NoThread, poisoned |-> FALSE]
IdleHost == [pc |-> "idle", kind |-> "none", name |-> "none", descr |-> "none",
             proc |-> "none", res |-> "none"]

\* Tool { name, description, .. } / Prompt { name, description, .. }
Descriptor(name, descr) == [name |-> name, description |-> descr]
\* ToolEntry { tool, handler } / PromptEntry { prompt, handler }
Entry(name, descr, proc) == [tool |-> Descriptor(name, descr), handler |-> proc]

\* HashMap::insert as a first-wins insert: a bug that keeps the old entry
InsertKeepOld(map, name, entry) ==
  [n \in DOMAIN map \cup {name} |-> IF n \in DOMAIN map THEN map[n] ELSE entry]
\* map.insert(name, entry): adds the key or overwrites its entry
Insert(map, name, entry) ==
  [n \in DOMAIN map \cup {name} |-> IF n = name THEN entry ELSE map[n]]

\* map.values().map(|t| t.tool.clone()).collect(): one descriptor per key,
\* in an arbitrary order
RECURSIVE ValuesOf(_, _)
ValuesOf(map, keys) ==
  IF keys = {} THEN <<>>
  ELSE LET k == CHOOSE k \in keys : TRUE
       IN <<map[k].tool>> \o ValuesOf(map, keys \ {k})
ListValues(map) == ValuesOf(map, DOMAIN map)

\* what a listing must show, from the registration history: per name, the
\* descriptor of the latest registration (and the description it replaced)
Wanted(kind) == {lastReg[kind][n] : n \in DOMAIN lastReg[kind]}

\* ------------------------------------------------------------------ RubyMcpServer
\* RubyMcpServer::new(runtime): inner = Some(runtime)
NewCap == [inner |-> "Some", st |-> "active", kept |-> FALSE]
\* a bug: one process-wide wrapper handed to every request
ReusedCap(cs) == IF cs = <<>> THEN 1 ELSE Len(cs)
\* the cell RubyMcpServer::new allocates (Rc::new): one no request had before
FreshCap(cs) == Len(cs) + 1
\* invalidate(): *inner = None; the cell is shared by every clone
Invalidate(c) == [c EXCEPT !.inner = "None"]
\* runtime(): Some(ptr) => Ok(ptr), None => Err("... no longer valid")
Runtime(c) == IF c.inner = "Some" THEN "Ok" ELSE "Invalid"

\* is_initialized / client_supports_sampling / create_message on cell c:
\* the outcome, whether the runtime reference was obtained, whether a
\* create-message request was sent to the client
Accessor(c, m) ==
  IF Runtime(c) # "Ok"
  THEN [res |-> InvalidMsg, reached |-> FALSE, sent |-> FALSE]
  ELSE IF m = "create_message_bad_params"
  THEN [res |-> MissingFieldMsg, reached |-> TRUE, sent |-> FALSE]
  ELSE [res |-> "ok", reached |-> TRUE, sent |-> (m = "create_message")]

\* ------------------------------------------------------------------ responses
Resp(channel, code, text) ==
  [channel |-> channel, code |-> code, text |-> text, items |-> <<>>]
\* CallToolError::unknown_tool(name)
UnknownTool(name) == Resp("call_tool_error", "unknown_tool", name)
\* RpcError::invalid_params().with_message("Unknown prompt")
UnknownPrompt == Resp("rpc_error", "invalid_params", UnknownPromptMsg)
\* CallToolError::new(std::io::Error::other(msg))
ToolError(msg) == Resp("call_tool_error", "io_other", msg)
\* a bug: a failure answered with the code of a bad request
InternalErrorAsInvalidParams(msg) == Resp("rpc_error", "invalid_params", msg)
\* RpcError::internal_error().with_message(msg)
InternalError(msg) == Resp("rpc_error", "internal_error", msg)
\* a bug: a handler failure answered as a protocol error
CallToolResponseRpc(outcome, text) ==
  IF outcome = "ok" THEN Resp("result", "ok", text) ELSE InternalError(text)
\* match text_result { Ok(text) => Ok(text_content), Err(e) => Err(CallToolError::new(..)) }
CallToolResponse(outcome, text) ==
  IF outcome = "ok" THEN Resp("result", "ok", text) ELSE ToolError(text)

\* ------------------------------------------------------------------ lifecycle values
\* a bug: start() leaving the shutdown flag as it found it
ResetFlagKeep(f) == f

StopFlagToggle(f) == ~f

\* shutdown_server: shutdown_flag().store(true, Ordering::Relaxed)
StopFlag(f) == TRUE

\* shutdown_server: "Ok".into()
StopReturnValue == "Ok"
\* shutdown_flag().store(false, Ordering::Relaxed)
ResetFlag(f) == FALSE
\* a bug: start() reporting the serve loop's error
StartReturnPropagate(res) == IF res = "Err" THEN "Err" ELSE "Ok"
\* let _ = nogvl(..); "Ok".into()
StartReturnValue(res) == "Ok"

IdleLife == [pc |-> "idle", blockOn |-> "none", exitBy |-> "none", ret |-> "none",
             sig |-> FALSE]
NoHist == [flagAtEntry |-> FALSE, stopSinceEntry |-> FALSE, stopRet |-> "none"]

\* the state after the extension is loaded, with budget b for the run
InitWith(b) ==
  /\ tools = <<>>
  /\ prompts = <<>>
  /\ toolsLock = FreeLock
  /\ promptsLock = FreeLock
  /\ gvl = NoThread
  /\ host = IdleHost
  /\ left = b
  /\ lastReg = [k \in {"tool", "prompt"} |-> <<>>]
  /\ reqs = [r \in ReqIds |-> Unborn]
  /\ caps = <<>>
  /\ flag = FALSE
  /\ life = IdleLife
  /\ hist = NoHist


\* a run spends its effort on concurrent requests, on registrations, or on
\* start/stop cycles
Profiles ==
  { [reqs |-> MaxReqs, regs |-> MaxRegs, starts |-> MaxStarts - 1,
     names |-> {"a"}, choices |-> {<<"d1", "p1">>}],
    [reqs |-> MaxReqs - 1, regs |-> MaxRegs, starts |-> MaxStarts - 1,
     names |-> Names, choices |-> RegChoices],
    [reqs |-> MaxReqs - 1, regs |-> MaxRegs, starts |-> MaxStarts,
     names |-> {"a"}, choices |-> {<<"d1", "p1">>}] }

Init == \E b \in Profiles : InitWith(b)

\* ------------------------------------------------------------------ locks
\* the host lock can be taken: nobody holds it. A thread that waits for it
\* waits until then
GvlFree == gvl = NoThread

LockOf(kind) == IF kind \in {"tool", "call_tool", "list_tools"} THEN toolsLock ELSE promptsLock
\* a bug: one map behind both registries
MapOfShared(kind) == tools
MapOf(kind) == IF kind \in {"tool", "call_tool", "list_tools"} THEN tools ELSE prompts
RegOf(kind) == IF kind \in {"call_tool", "list_tools"} THEN "tool" ELSE "prompt"
\* the registry a request of `kind` has nothing to do with
OtherReg(kind) == IF kind \in {"call_tool", "list_tools"} THEN "prompt" ELSE "tool"
PoisonedMsg(kind) ==
  IF kind \in {"tool", "call_tool", "list_tools"} THEN ToolsPoisonedMsg ELSE PromptsPoisonedMsg

\* the lock of `kind` becomes l, the other one stays
SetLock(kind, l) ==
  IF kind \in {"tool", "call_tool", "list_tools"}
  THEN toolsLock' = l /\ UNCHANGED promptsLock
  ELSE promptsLock' = l /\ UNCHANGED toolsLock

\* a bug: the registry read without holding its mutex
LockedNot(l, t) == l
\* tools().lock() / prompts().lock() succeeds: thread t holds the guard
Locked(l, t) == [l EXCEPT !.owner = t]

\* a bug: the guard outlives the request
UnlockedNever(l) == l
\* the guard is dropped: by a return, or by unwinding, which poisons the mutex
Unlocked(l) == [l EXCEPT !.owner = NoThread]
UnlockedByPanic(l) == [owner |-> NoThread, poisoned |-> TRUE]

\* ------------------------------------------------------------------ registration
\* register_tool / register_prompt, called by a host thread under the host
\* lock: build the descriptor and the entry, then wait for the registry mutex
RegisterBegin(kind, name, choice) ==
  /\ host.pc = "idle"
  /\ left.regs > 0
  /\ name \in left.names
  /\ choice \in left.choices
  /\ GvlFree
  /\ left' = [left EXCEPT !.regs = @ - 1]
  /\ host' = [pc |-> "lock", kind |-> kind, name |-> name,
              descr |-> choice[1], proc |-> choice[2], res |-> "none"]
  /\ gvl' = HostThread
  /\ UNCHANGED <<tools, prompts, toolsLock, promptsLock, lastReg, reqs, caps, flag, life, hist>>

\* tools().lock().map_err(..)?; map.insert(name, entry); Ok(())
RegisterInsert ==
  /\ host.pc = "lock"
  /\ LockOf(host.kind).owner = NoThread
  /\ gvl' = NoThread
  /\ host' = [IdleHost EXCEPT !.res = IF LockOf(host.kind).poisoned
                                      THEN PoisonedMsg(host.kind) ELSE "ok"]
  /\ IF LockOf(host.kind).poisoned
     THEN UNCHANGED <<tools, prompts, lastReg>>
     ELSE /\ IF host.kind = "tool"
             THEN /\ tools' = Insert(tools, host.name, Entry(host.name, host.descr, host.proc))
                  /\ UNCHANGED prompts
             ELSE /\ prompts' = Insert(prompts, host.name, Entry(host.name, host.descr, host.proc))
                  /\ UNCHANGED tools
          /\ lastReg' = [lastReg EXCEPT ![host.kind] =
                           [n \in DOMAIN @ \cup {host.name} |->
                              IF n = host.name
                              THEN [d |-> Descriptor(host.name, host.descr),
                                    over |-> IF n \in DOMAIN @
                                             THEN @[n].d.description ELSE "none"]
                              ELSE @[n]]]
  /\ UNCHANGED <<toolsLock, promptsLock, left, reqs, caps, flag, life, hist>>

\* ------------------------------------------------------------------ dispatcher
\* the request is answered: its locals are gone, the answer is kept
Finish(q, resp) ==
  [q EXCEPT !.pc = "done", !.acc = NoAcc, !.resp = resp]

\* the serve loop hands a request to the handler
Receive(r, kind, name) ==
  /\ life.pc = "serving"
  /\ left.reqs > 0
  /\ name \in left.names
  /\ reqs[r].pc = "unborn"
  /\ IF r = 1 THEN TRUE ELSE reqs[r - 1].pc # "unborn"
  /\ kind \in {"list_tools", "list_prompts"} => name = "a"
  /\ left' = [left EXCEPT !.reqs = @ - 1]
  /\ reqs' = [reqs EXCEPT ![r] = [Unborn EXCEPT !.pc = "received", !.kind = kind,
                                                !.name = name]]
  /\ UNCHANGED <<tools, prompts, toolsLock, promptsLock, gvl, host, lastReg,
                 caps, flag, life, hist>>

\* handle_list_tools_request / handle_list_prompts_request
List(r) ==
  LET q == reqs[r]
  IN /\ q.pc = "received"
     /\ q.kind \in {"list_tools", "list_prompts"}
     /\ LockOf(q.kind).owner = NoThread
     /\ reqs' = [reqs EXCEPT ![r] =
          IF LockOf(q.kind).poisoned
          THEN Finish([q EXCEPT !.found = "poisoned"], InternalError(PoisonedMsg(q.kind)))
          ELSE Finish([q EXCEPT !.want = Wanted(RegOf(q.kind))],
                      [Resp("result", "ok", "list") EXCEPT
                         !.items = ListValues(MapOf(q.kind))])]
     /\ UNCHANGED <<tools, prompts, toolsLock, promptsLock, gvl, host, left, lastReg,
                    caps, flag, life, hist>>

\* a bug: an unknown name answered as a generic failure
NotFoundGeneric(kind, name) ==
  IF kind = "call_tool" THEN ToolError(name) ELSE InternalError(name)
\* the answer to a name the registry does not hold
NotFound(kind, name) == IF kind = "call_tool" THEN UnknownTool(name) ELSE UnknownPrompt
\* a bug: a failure answered like an unknown name
FailureAsNotFound(kind, msg) == IF kind = "call_tool" THEN UnknownTool(msg) ELSE UnknownPrompt
\* the answer to a failure before or after the handler, by request kind
Failure(kind, msg) == IF kind = "call_tool" THEN ToolError(msg) ELSE InternalError(msg)

\* handle_call_tool_request / handle_get_prompt_request up to the wrapper:
\* lock the registry, look the name up, take the Proc, build the capability;
\* the request carries arguments or none. (History: a miss notes what the
\* other registry held at that moment, a refusal by a poisoned lock what
\* its own registry held.)
Lookup(r, args) ==
  LET q == reqs[r]
      l == LockOf(q.kind)
      map == MapOf(q.kind)
  IN /\ q.pc = "received"
     /\ q.kind \in {"call_tool", "get_prompt"}
     /\ l.owner = NoThread
     /\ IF l.poisoned
        THEN /\ reqs' = [reqs EXCEPT ![r] = Finish([q EXCEPT !.found = "poisoned",
                                                             !.want = Wanted(RegOf(q.kind))],
                                                   Failure(q.kind, PoisonedMsg(q.kind)))]
             /\ UNCHANGED <<toolsLock, promptsLock, caps>>
        ELSE IF q.name \notin DOMAIN map
        THEN /\ reqs' = [reqs EXCEPT ![r] = Finish([q EXCEPT !.found = "miss",
                                                             !.want = Wanted(OtherReg(q.kind))],
                                                   NotFound(q.kind, q.name))]
             /\ UNCHANGED <<toolsLock, promptsLock, caps>>
        ELSE /\ reqs' = [reqs EXCEPT ![r] =
                  [q EXCEPT !.pc = IF args THEN "marshal_args" ELSE "invoke",
                            !.found = "hit", !.proc = map[q.name].handler,
                            !.cap = FreshCap(caps)]]
             /\ caps' = Append(caps, NewCap)
             /\ SetLock(q.kind, Locked(l, ReqThread(r)))
     /\ UNCHANGED <<tools, prompts, gvl, host, left, lastReg, flag, life, hist>>

\* with_gvl(|| json_value_to_ruby_value(..)).map_err(..)?
MarshalArgs(r, ok) ==
  LET q == reqs[r]
  IN /\ q.pc = "marshal_args"
     /\ GvlFree
     /\ IF ok
        THEN /\ reqs' = [reqs EXCEPT ![r].pc = "invoke"]
             /\ UNCHANGED <<toolsLock, promptsLock>>
        ELSE /\ reqs' = [reqs EXCEPT ![r] = Finish(q, Failure(q.kind, MarshalMsg))]
             /\ SetLock(q.kind, Unlocked(LockOf(q.kind)))
     /\ UNCHANGED <<tools, prompts, gvl, host, left, lastReg, caps, flag, life, hist>>

\* a bug: the Proc called without taking the host lock
InvokeWithoutGvl(r) ==
  /\ reqs[r].pc = "invoke"
  /\ reqs' = [reqs EXCEPT ![r].pc = "in_handler"]
  /\ UNCHANGED <<tools, prompts, toolsLock, promptsLock, gvl, host, left, lastReg, caps,
                 flag, life, hist>>
\* with_gvl(|| proc.call((args, wrapper.clone()))): the host lock is taken
Invoke(r) ==
  /\ reqs[r].pc = "invoke"
  /\ GvlFree
  /\ gvl' = ReqThread(r)
  /\ reqs' = [reqs EXCEPT ![r].pc = "in_handler"]
  /\ UNCHANGED <<tools, prompts, toolsLock, promptsLock, host, left, lastReg, caps,
                 flag, life, hist>>

\* what the handler does with capabilities while it runs: it may store the
\* one it was given in process-wide state, and it may call one accessor, on
\* its own capability or on a stored one (use = <<capability, method>>, or
\* <<0, "none">> for no call)
Uses(q) ==
  {<<0, "none">>} \cup
  {<<c, m>> : c \in {c \in DOMAIN caps : c = q.cap \/ caps[c].kept}, m \in Methods}

\* the handler invocation ends. An error raised by the accessor is the
\* handler's failure; otherwise the Proc returns a value, raises a host
\* error, or the closure panics and with_gvl passes the panic on, which
\* unwinds the dispatcher past wrapper.invalidate() and drops the guard
HandlerEnd(r, keep, use, o) ==
  LET q == reqs[r]
      a == Accessor(caps[use[1]], use[2])
      exc == IF use[1] = 0 \/ a.res = "ok" THEN "none" ELSE a.res
      acc == IF use[1] = 0 THEN NoAcc
             ELSE [on |-> IF use[1] = q.cap THEN "own" ELSE caps[use[1]].st,
                   m |-> use[2], reached |-> a.reached, sent |-> a.sent]
      held == [caps EXCEPT ![q.cap].kept = keep]
  IN /\ q.pc = "in_handler"
     /\ use \in Uses(q)
     /\ exc # "none" => o = "err"
     /\ gvl' = NoThread
     /\ IF o = "panic"
        THEN /\ reqs' = [reqs EXCEPT ![r] =
                  [q EXCEPT !.pc = "panicked", !.outcome = "panic"]]
             /\ caps' = [held EXCEPT ![q.cap].st = "panicked"]
             /\ SetLock(q.kind, UnlockedByPanic(LockOf(q.kind)))
        ELSE /\ reqs' = [reqs EXCEPT ![r] =
                  [q EXCEPT !.pc = "invalidate", !.outcome = o, !.acc = acc,
                            !.exc = IF o = "err" /\ exc = "none" THEN HandlerErrMsg ELSE exc]]
             /\ caps' = [held EXCEPT ![q.cap].st = "returned"]
             /\ UNCHANGED <<toolsLock, promptsLock>>
     /\ UNCHANGED <<tools, prompts, host, left, lastReg, flag, life, hist>>

\* wrapper.invalidate(), then call-tool: the match on text_result;
\* get-prompt: msg_value.map_err(..).and_then(..)?, which answers a handler
\* failure at once and otherwise goes on to marshal the returned value
AfterHandler(r) ==
  LET q == reqs[r]
  IN /\ q.pc = "invalidate"
     /\ caps' = [caps EXCEPT ![q.cap] = Invalidate(@)]
     /\ IF q.kind = "get_prompt" /\ q.outcome = "ok"
        THEN /\ reqs' = [reqs EXCEPT ![r].pc = "marshal_result"]
             /\ UNCHANGED <<toolsLock, promptsLock>>
        ELSE /\ reqs' = [reqs EXCEPT ![r] =
                  Finish(q, IF q.kind = "call_tool"
                            THEN CallToolResponse(q.outcome,
                                                  IF q.outcome = "ok" THEN "text" ELSE q.exc)
                            ELSE InternalError(q.exc))]
             /\ SetLock(q.kind, Unlocked(LockOf(q.kind)))
     /\ UNCHANGED <<tools, prompts, gvl, host, left, lastReg, flag, life, hist>>

\* get-prompt: with_gvl(|| ruby_value_to_json_value(..)), then
\* serde_json::from_value into Vec<PromptMessage>, then the result with
\* entry.prompt.description
MarshalResult(r, ok) ==
  LET q == reqs[r]
  IN /\ q.pc = "marshal_result"
     /\ GvlFree
     /\ reqs' = [reqs EXCEPT ![r] =
          Finish(q, IF ok
                    THEN [Resp("result", "ok", "messages") EXCEPT
                            !.items = <<MapOf(q.kind)[q.name].tool>>]
                    ELSE InternalError(MarshalMsg))]
     /\ SetLock(q.kind, Unlocked(LockOf(q.kind)))
     /\ UNCHANGED <<tools, prompts, gvl, host, left, lastReg, caps, flag, life, hist>>

\* ------------------------------------------------------------------ lifecycle
\* start_server is called by a host thread, which holds the host lock:
\* RUNTIME.get_or_init(..)
StartCall ==
  /\ life.pc = "idle"
  /\ left.starts > 0
  /\ GvlFree
  /\ gvl' = MainThread
  /\ left' = [left EXCEPT !.starts = @ - 1]
  /\ life' = [IdleLife EXCEPT !.pc = "init"]
  /\ hist' = [NoHist EXCEPT !.flagAtEntry = flag]
  /\ UNCHANGED <<tools, prompts, toolsLock, promptsLock, host, lastReg, reqs, caps, flag>>

\* shutdown_flag().store(false, Ordering::Relaxed)
StartReset ==
  /\ life.pc = "init"
  /\ flag' = ResetFlag(flag)
  /\ life' = [life EXCEPT !.pc = "nogvl"]
  /\ UNCHANGED <<tools, prompts, toolsLock, promptsLock, gvl, host, left, lastReg,
                 reqs, caps, hist>>

\* nogvl(|| runtime.block_on(..)): the host lock is released, then
\* StdioTransport::new(..)? either fails, which ends block_on with the
\* error, or the select! over the three futures begins
StartServe(transportOk) ==
  /\ life.pc = "nogvl"
  /\ gvl' = NoThread
  /\ life' = IF transportOk
             THEN [life EXCEPT !.pc = "serving"]
             ELSE [life EXCEPT !.pc = "reacquire", !.blockOn = "Err",
                               !.exitBy = "transport_error"]
  /\ UNCHANGED <<tools, prompts, toolsLock, promptsLock, host, left, lastReg, reqs,
                 caps, flag, hist>>

\* select!: result = server.start() => result
ServeFinish(res) ==
  /\ life.pc = "serving"
  /\ life' = [life EXCEPT !.pc = "reacquire", !.blockOn = res, !.sig = FALSE,
                          !.exitBy = IF res = "Ok" THEN "serve_ok" ELSE "serve_error"]
  /\ UNCHANGED <<tools, prompts, toolsLock, promptsLock, gvl, host, left, lastReg,
                 reqs, caps, flag, hist>>

\* select!: _ = shutdown_monitor() => Ok(()); the monitor's loop breaks on
\* the poll that loads true, and sleeps 100 ms otherwise
MonitorPoll ==
  /\ life.pc = "serving"
  /\ flag
  /\ life' = [life EXCEPT !.pc = "reacquire", !.blockOn = "Ok", !.sig = FALSE,
                          !.exitBy = "shutdown"]
  /\ UNCHANGED <<tools, prompts, toolsLock, promptsLock, gvl, host, left, lastReg,
                 reqs, caps, flag, hist>>

\* SIGINT or SIGTERM is delivered to the process while signal_handler() listens
SignalArrive(s) ==
  /\ life.pc = "serving"
  /\ s \in {"SIGINT", "SIGTERM"}
  /\ ~life.sig
  /\ life' = [life EXCEPT !.sig = TRUE]
  /\ UNCHANGED <<tools, prompts, toolsLock, promptsLock, gvl, host, left, lastReg,
                 reqs, caps, flag, hist>>

\* select!: _ = signal_handler() => Ok(())
SignalExit ==
  /\ life.pc = "serving"
  /\ life.sig
  /\ life' = [life EXCEPT !.pc = "reacquire", !.blockOn = "Ok", !.sig = FALSE,
                          !.exitBy = "signal"]
  /\ UNCHANGED <<tools, prompts, toolsLock, promptsLock, gvl, host, left, lastReg,
                 reqs, caps, flag, hist>>

\* nogvl returns once the calling thread holds the host lock again;
\* start_server then returns "Ok" to its host caller
StartReturn ==
  /\ life.pc = "reacquire"
  /\ GvlFree
  /\ life' = [life EXCEPT !.pc = "idle", !.exitBy = "none",
                          !.ret = StartReturnValue(life.blockOn)]
  /\ hist' = NoHist
  /\ UNCHANGED <<tools, prompts, toolsLock, promptsLock, gvl, host, left, lastReg,
                 reqs, caps, flag>>

\* shutdown_server, called by a host thread under the host lock:
\* shutdown_flag().store(true, Ordering::Relaxed); "Ok".into()
StopCall ==
  /\ GvlFree
  /\ flag' = StopFlag(flag)
  /\ hist' = [hist EXCEPT !.stopSinceEntry = @ \/ life.pc # "idle",
                          !.stopRet = StopReturnValue]
  /\ UNCHANGED <<tools, prompts, toolsLock, promptsLock, gvl, host, left, lastReg,
                 reqs, caps, life>>

\* ------------------------------------------------------------------ specification
Register ==
  \E kind \in {"tool", "prompt"}, name \in Names, choice \in RegChoices :
     RegisterBegin(kind, name, choice)

Dispatch(r) ==
  \/ List(r)
  \/ \E args \in BOOLEAN : Lookup(r, args)
  \/ \E ok \in BOOLEAN : MarshalArgs(r, ok)
  \/ Invoke(r)
  \/ \E keep \in BOOLEAN, use \in ({0} \cup ReqIds) \X ({"none"} \cup Methods),
        o \in WithGvlOutcomes : HandlerEnd(r, keep, use, o)
  \/ AfterHandler(r)
  \/ \E ok \in BOOLEAN : MarshalResult(r, ok)

Next ==
  \/ Register
  \/ RegisterInsert
  \/ \E r \in ReqIds, kind \in Kinds, name \in Names : Receive(r, kind, name)
  \/ \E r \in ReqIds : Dispatch(r)
  \/ StartCall
  \/ StartReset
  \/ \E ok \in BOOLEAN : StartServe(ok)
  \/ \E res \in {"Ok", "Err"} : ServeFinish(res)
  \/ MonitorPoll
  \/ \E s \in {"SIGINT", "SIGTERM"} : SignalArrive(s)
  \/ SignalExit
  \/ StartReturn
  \/ StopCall

Spec == Init /\ [][Next]_vars

\* the scheduling the lifecycle relies on: the runtime keeps polling the
\* select! futures, the host lock is handed to every waiter in turn, workers
\* keep running their requests, and handlers come to an end
Fairness ==
  /\ WF_vars(MonitorPoll)
  /\ WF_vars(SignalExit)
  /\ SF_vars(StartReturn)
  /\ SF_vars(RegisterInsert)
  /\ \A r \in ReqIds : SF_vars(Dispatch(r))

LiveSpec == Spec /\ Fairness

\* ------------------------------------------------------------------ properties
\* C1: once the handler invocation that received a capability has returned,
\* an accessor called on that capability (or on a retained copy of it) fails
\* with the invalidity error and does not reach the runtime reference.
C1_NoRuntimeAfterReturn ==
  \A r \in ReqIds :
     reqs[r].acc.on \in {"returned", "panicked"} =>
        /\ ~reqs[r].acc.reached
        /\ reqs[r].exc = InvalidMsg

\* C2: whenever a handler invocation has ended (success, host error or
\* panic) and the dispatcher has moved past it, the capability the handler
\* received is invalid.
C2_InvalidatedWhateverTheOutcome ==
  \A r \in ReqIds :
     reqs[r].outcome # "none" /\ reqs[r].pc \in {"marshal_result", "done", "panicked"} =>
        caps[reqs[r].cap].inner = "None"

\* C3: a list-tools result holds exactly one descriptor per registered name,
\* and it is the descriptor of the latest register_tool call for that name.
C3_ListToolsLatestPerName ==
  \A r \in ReqIds :
     LET q == reqs[r]
         items == q.resp.items
     IN q.kind = "list_tools" /\ q.pc = "done" /\ q.resp.channel = "result" =>
          /\ Len(items) = Cardinality(q.want)
          /\ {items[i] : i \in 1..Len(items)} = {w.d : w \in q.want}
          /\ \A i, j \in 1..Len(items) : items[i].name = items[j].name => i = j

\* a list-tools result taken after a name was registered again with another
\* description
C3_ListedAfterOverwrite ==
  \E r \in ReqIds :
     /\ reqs[r].kind = "list_tools"
     /\ reqs[r].pc = "done"
     /\ reqs[r].resp.channel = "result"
     /\ \E w \in reqs[r].want : w.over \notin {"none", w.d.description}

\* C4: a call-tool request whose name the tool registry does not hold is
\* answered with the unknown-tool error naming the requested tool, without a
\* handler invocation and without a capability.
C4_UnknownToolAnswer ==
  \A r \in ReqIds :
     reqs[r].kind = "call_tool" /\ reqs[r].found = "miss" =>
        /\ reqs[r].pc = "done"
        /\ reqs[r].resp.channel = "call_tool_error"
        /\ reqs[r].resp.code = "unknown_tool"
        /\ reqs[r].resp.text = reqs[r].name
        /\ reqs[r].cap = 0
        /\ reqs[r].outcome = "none"

\* an unknown tool was called while another tool is registered
C4_UnknownToolCalled ==
  \E r \in ReqIds :
     /\ reqs[r].kind = "call_tool"
     /\ reqs[r].found = "miss"
     /\ reqs[r].pc = "done"
     /\ DOMAIN tools # {}

\* C5: a get-prompt request whose name the prompt registry does not hold is
\* answered with the invalid-params protocol error saying "Unknown prompt",
\* without a handler invocation.
C5_UnknownPromptAnswer ==
  \A r \in ReqIds :
     reqs[r].kind = "get_prompt" /\ reqs[r].found = "miss" =>
        /\ reqs[r].pc = "done"
        /\ reqs[r].resp.channel = "rpc_error"
        /\ reqs[r].resp.code = "invalid_params"
        /\ reqs[r].resp.text = UnknownPromptMsg
        /\ reqs[r].cap = 0
        /\ reqs[r].outcome = "none"

\* an unknown prompt was requested while another prompt is registered
C5_UnknownPromptRequested ==
  \E r \in ReqIds :
     /\ reqs[r].kind = "get_prompt"
     /\ reqs[r].found = "miss"
     /\ reqs[r].pc = "done"
     /\ DOMAIN prompts # {}

\* C6: a tool handler that fails (a host error, the missing-field error of
\* create_message, the invalidity error of a stale capability) does not end
\* the request by a panic, and the request is answered with the tool-error
\* result carrying that error's message, not with a protocol error.
C6_ToolFailureIsToolError ==
  \A r \in ReqIds :
     reqs[r].kind = "call_tool" /\ reqs[r].outcome = "err" =>
        /\ reqs[r].pc \in {"invalidate", "done"}
        /\ reqs[r].exc \in {HandlerErrMsg, MissingFieldMsg, InvalidMsg}
        /\ reqs[r].pc = "done" =>
             /\ reqs[r].resp.channel = "call_tool_error"
             /\ reqs[r].resp.code = "io_other"
             /\ reqs[r].resp.text = reqs[r].exc

\* a tool call answered after create_message failed on a missing field,
\* with the serve loop still running
C6_MissingFieldAnswered ==
  \E r \in ReqIds :
     /\ reqs[r].kind = "call_tool"
     /\ reqs[r].outcome = "err"
     /\ reqs[r].pc = "done"
     /\ reqs[r].exc = MissingFieldMsg
     /\ life.pc = "serving"

\* C7: once stop() has been called during the serve loop, start() can always
\* still come to its return: some step of the process remains possible until
\* it has returned.
C7_StopEndsStart ==
  \/ life.pc = "serving" /\ flag
  \/ life.pc = "reacquire" /\ life.exitBy = "shutdown"
  => ENABLED Next

\* C7, as a liveness property under fair scheduling: a stop() during the
\* serve loop leads to start() having returned.
C7_StopLeadsToReturn ==
  (life.pc = "serving" /\ flag) ~> (life.pc = "idle")

\* C8: a stop() that completed before start() was called does not end the
\* serve loop: unless stop() is called after start() was entered, the flag
\* is false once start() has reset it, and the loop never exits by the flag.
C8_StopBeforeStartIsNoOp ==
  /\ life.pc \in {"nogvl", "serving"} /\ ~hist.stopSinceEntry => flag = FALSE
  /\ life.exitBy = "shutdown" => hist.stopSinceEntry

\* the serve loop runs with a clear flag although stop() had set it before
\* start() was called
C8_ServingAfterEarlierStop ==
  /\ life.pc = "serving"
  /\ hist.flagAtEntry
  /\ ~hist.stopSinceEntry
  /\ ~flag

\* C9: start() returns "Ok" on every path, whatever block_on produced.
C9_StartReturnsOk ==
  /\ life.ret \in {"none", "Ok"}
  /\ life.pc = "idle" /\ life.blockOn # "none" => life.ret = "Ok"

\* start() has returned "Ok" after block_on ended with an error
C9_ReturnedOkAfterError ==
  /\ life.pc = "idle"
  /\ life.blockOn = "Err"
  /\ life.ret = "Ok"

\* C10: once SIGINT or SIGTERM has arrived during the serve loop, start() can
\* always still come to its return of "Ok": some step of the process remains
\* possible until it has returned.
C10_SignalEndsStart ==
  \/ life.pc = "serving" /\ life.sig
  \/ life.pc = "reacquire" /\ life.exitBy = "signal"
  => ENABLED Next

\* C10, second half: the select! branches that end the serve loop and the
\* return of start() leave every request, capability and lock as they are.
C10_ExitAbortsNoHandler ==
  [][MonitorPoll \/ SignalExit \/ StartReturn =>
       UNCHANGED <<reqs, caps, toolsLock, promptsLock, gvl>>]_vars
\* C11: a handler executes only while its dispatcher holds the host lock, so
\* at most one handler invocation is executing at any time.
C11_HandlersSerialized ==
  /\ \A r \in ReqIds : reqs[r].pc = "in_handler" => gvl = ReqThread(r)
  /\ \A r1, r2 \in ReqIds :
        reqs[r1].pc = "in_handler" /\ reqs[r2].pc = "in_handler" => r1 = r2

\* one handler is executing while another request, past its lookup, waits
\* for the host lock to invoke its own
C11_HandlerWaitsForHandler ==
  \E r1, r2 \in ReqIds :
     /\ reqs[r1].pc = "in_handler"
     /\ reqs[r2].pc = "invoke"
     /\ gvl = ReqThread(r1)
\* C12: while a handler is executing, no received request that is about to
\* read a registry finds that registry's lock held by the handler's
\* dispatcher: the host lock is the only lock held across the invocation.
C12_NoRegistryLockAcrossHandler ==
  \A r1, r2 \in ReqIds :
     reqs[r1].pc = "in_handler" /\ reqs[r2].pc = "received" =>
        LockOf(reqs[r2].kind).owner # ReqThread(r1)
\* C13: a listing returns the complete registry as it stood after a whole
\* number of registration calls, and a get-prompt result carries the name
\* and the description of the very registration whose handler was invoked.
C13_ReadsAreAtomic ==
  \A r \in ReqIds :
     LET q == reqs[r]
         items == q.resp.items
     IN /\ q.kind \in {"list_tools", "list_prompts"} /\ q.resp.channel = "result" =>
             /\ Len(items) = Cardinality(q.want)
             /\ {items[i] : i \in 1..Len(items)} = {w.d : w \in q.want}
        /\ q.kind = "get_prompt" /\ q.resp.channel = "result" =>
             /\ Len(items) = 1
             /\ items[1].name = q.name
             /\ <<items[1].description, q.proc>> \in RegChoices

\* a listing was answered while a registration call on the same registry
\* was under way, and shows the state before that registration
C13_ListedDuringRegistration ==
  \E r \in ReqIds :
     /\ reqs[r].kind = "list_prompts"
     /\ reqs[r].resp.channel = "result"
     /\ host.pc = "lock"
     /\ host.kind = "prompt"
     /\ \A i \in 1..Len(reqs[r].resp.items) :
           reqs[r].resp.items[i] # Descriptor(host.name, host.descr)
\* C14: every request that reaches a handler has a capability of its own,
\* shared with no other request, and that capability is valid for as long
\* as the request is on its way to or inside its handler, whatever happens
\* to the capabilities of other requests.
C14_OwnCapabilityPerRequest ==
  /\ \A r \in ReqIds :
        reqs[r].found = "hit" => reqs[r].cap \in DOMAIN caps
  /\ \A r1, r2 \in ReqIds :
        reqs[r1].cap # 0 /\ reqs[r1].cap = reqs[r2].cap => r1 = r2
  /\ \A r \in ReqIds :
        reqs[r].pc \in {"marshal_args", "invoke", "in_handler"} =>
           caps[reqs[r].cap].inner = "Some"

\* one request's capability has been invalidated while another request is
\* inside its handler with a valid capability
C14_InvalidatedBesideInFlight ==
  \E r1, r2 \in ReqIds :
     /\ reqs[r1].cap # 0
     /\ caps[reqs[r1].cap].inner = "None"
     /\ reqs[r2].pc = "in_handler"
     /\ caps[reqs[r2].cap].inner = "Some"
\* C15: a create-message request goes out to the client only through the
\* capability of the handler invocation that is executing, and only with
\* parameters that converted; an invalidated capability or unconvertible
\* parameters send nothing.
C15_SentOnlyThroughOwnCapability ==
  \A r \in ReqIds :
     LET a == reqs[r].acc
     IN /\ a.sent => a.on = "own" /\ a.m = "create_message"
        /\ a.m = "create_message_bad_params" => ~a.sent
        /\ reqs[r].exc = InvalidMsg => ~a.sent

\* C15, the part about failing calls: create_message that ends with the
\* invalidity error or with the conversion error has sent nothing, and
\* nothing is sent unless the runtime reference was obtained.
C15_FailedCallSendsNothing ==
  \A r \in ReqIds :
     LET a == reqs[r].acc
     IN /\ a.sent => a.reached /\ a.m = "create_message"
        /\ reqs[r].exc \in {InvalidMsg, MissingFieldMsg} => ~a.sent
\* C16: a handler is invoked only for a request whose lookup succeeded, a
\* lookup miss is answered with an error and no handler invocation, a
\* response exists exactly when the request is done, and every request that
\* has ended has ended with a response.
C16_EndsWithOneResponse ==
  \A r \in ReqIds :
     LET q == reqs[r]
     IN /\ q.outcome # "none" => q.found = "hit"
        /\ q.found = "miss" =>
              q.pc = "done" /\ q.outcome = "none" /\ q.resp.channel \notin {"none", "result"}
        /\ q.resp.channel # "none" => q.pc = "done"
        /\ q.pc \in {"done", "panicked"} => q.resp.channel # "none"

\* C16, the order of the steps: each step of a call-tool or get-prompt
\* request moves it along received, looked up, arguments marshalled,
\* invoked, result marshalled, responded, never backwards and never twice
\* into the handler; a miss or a marshalling error goes straight to the
\* response; a response, once given, does not change.
C16_StepsInOrder ==
  [][\A r \in ReqIds :
       LET p == reqs[r].pc
           n == reqs'[r].pc
       IN /\ reqs[r].kind \in {"call_tool", "get_prompt"} /\ n # p =>
               \/ p = "received" /\ n \in {"marshal_args", "invoke", "done"}
               \/ p = "marshal_args" /\ n \in {"invoke", "done"}
               \/ p = "invoke" /\ n = "in_handler"
               \/ p = "in_handler" /\ n \in {"invalidate", "panicked"}
               \/ p = "invalidate" /\ n \in {"marshal_result", "done"}
               \/ p = "marshal_result" /\ n = "done"
          /\ n = "in_handler" /\ p # n =>
               reqs[r].found = "hit" /\ reqs[r].outcome = "none"
          /\ p = "received" /\ n = "done" => reqs'[r].outcome = "none"
          /\ p = "marshal_args" /\ n = "done" =>
               reqs'[r].outcome = "none" /\ reqs'[r].resp.text = MarshalMsg
          /\ p = "done" => reqs'[r] = reqs[r]]_vars
\* C17: a get-prompt request whose handler raised a host error, or whose
\* handler's value could not be marshalled, is answered with the protocol
\* internal error carrying the underlying message, and its capability is
\* invalid by then.
C17_PromptFailureIsInternalError ==
  \A r \in ReqIds :
     LET q == reqs[r]
     IN q.kind = "get_prompt" /\ q.pc = "done" /\ q.outcome # "none"
        /\ q.resp.channel # "result" =>
          /\ q.resp.channel = "rpc_error"
          /\ q.resp.code = "internal_error"
          /\ q.resp.text = IF q.outcome = "err" THEN q.exc ELSE MarshalMsg
          /\ q.outcome = "err" => q.exc \in {HandlerErrMsg, MissingFieldMsg, InvalidMsg}
          /\ caps[q.cap].inner = "None"

\* a get-prompt request answered after its handler raised a host error
C17_PromptHandlerFailed ==
  \E r \in ReqIds :
     /\ reqs[r].kind = "get_prompt"
     /\ reqs[r].pc = "done"
     /\ reqs[r].outcome = "err"
     /\ reqs[r].resp.text = HandlerErrMsg
\* C18: a poisoned registry lock stays poisoned; from then on every list
\* and lookup on that registry is answered with the poisoned-mutex error,
\* which is not the unknown-tool or invalid-params answer, and every
\* registration on it fails and changes nothing; poisoning one registry
\* changes nothing about the other, on which registrations still succeed.
C18_PoisonPersists ==
  [][/\ toolsLock.poisoned => toolsLock'.poisoned
     /\ promptsLock.poisoned => promptsLock'.poisoned
     /\ toolsLock'.poisoned # toolsLock.poisoned =>
           promptsLock' = promptsLock /\ prompts' = prompts
     /\ promptsLock'.poisoned # promptsLock.poisoned =>
           toolsLock' = toolsLock /\ tools' = tools
     /\ \A r \in ReqIds :
           reqs[r].pc = "received" /\ reqs'[r].pc # "received"
           /\ LockOf(reqs[r].kind).poisoned =>
             /\ reqs'[r].pc = "done"
             /\ reqs'[r].found = "poisoned"
             /\ reqs'[r].outcome = "none"
             /\ reqs'[r].cap = 0
             /\ reqs'[r].resp.text = PoisonedMsg(reqs[r].kind)
             /\ reqs'[r].resp.code \in {"io_other", "internal_error"}
             /\ reqs'[r].resp.code \notin {"unknown_tool", "invalid_params"}
     /\ host.pc = "lock" /\ host'.pc = "idle" =>
           IF LockOf(host.kind).poisoned
           THEN host'.res = PoisonedMsg(host.kind) /\ UNCHANGED <<tools, prompts>>
           ELSE host'.res = "ok"]_vars

\* a call-tool request was answered with the poisoned-mutex error after an
\* earlier handler panic, while the prompt registry's lock is not poisoned
C18_PoisonedLookupAnswered ==
  \E r \in ReqIds :
     /\ reqs[r].kind = "call_tool"
     /\ reqs[r].found = "poisoned"
     /\ reqs[r].pc = "done"
     /\ toolsLock.poisoned
     /\ ~promptsLock.poisoned
\* C19: the step that answers a call-tool or get-prompt request with an
\* error changes neither registry, neither the shutdown flag nor the serve
\* loop, poisons no lock, and leaves no registry lock and no host lock in
\* the hands of that request.
C19_ErrorLeavesServerAsItWas ==
  [][\A r \in ReqIds :
       reqs[r].kind \in {"call_tool", "get_prompt"}
       /\ reqs[r].pc # "done" /\ reqs'[r].pc = "done"
       /\ reqs'[r].resp.channel # "result" =>
         /\ UNCHANGED <<tools, prompts, flag, life, gvl>>
         /\ toolsLock'.poisoned = toolsLock.poisoned
         /\ promptsLock'.poisoned = promptsLock.poisoned
         /\ toolsLock'.owner # ReqThread(r)
         /\ promptsLock'.owner # ReqThread(r)
         /\ gvl' # ReqThread(r)]_vars

\* a call-tool request was answered with its handler's failure, and a
\* later call-tool request has been looked up and is inside its handler
C19_ServedAfterFailure ==
  \E r1, r2 \in ReqIds :
     /\ reqs[r1].kind = "call_tool"
     /\ reqs[r1].pc = "done"
     /\ reqs[r1].outcome = "err"
     /\ reqs[r2].kind = "call_tool"
     /\ reqs[r2].pc = "in_handler"
     /\ life.pc = "serving"
\* C20: each registry holds exactly what the registrations of its own kind
\* put there, whatever was registered, listed or called on the other one,
\* and a lookup or a listing finds only names registered for its own kind.
C20_RegistriesIndependent ==
  /\ DOMAIN tools = DOMAIN lastReg["tool"]
  /\ DOMAIN prompts = DOMAIN lastReg["prompt"]
  /\ \A n \in DOMAIN tools : tools[n].tool = lastReg["tool"][n].d
  /\ \A n \in DOMAIN prompts : prompts[n].tool = lastReg["prompt"][n].d
  /\ \A r \in ReqIds :
        /\ reqs[r].found = "hit" => reqs[r].name \in DOMAIN lastReg[RegOf(reqs[r].kind)]
        /\ \A i \in 1..Len(reqs[r].resp.items) :
              reqs[r].resp.items[i].name \in DOMAIN lastReg[RegOf(reqs[r].kind)]

\* a get-prompt request for a name was answered as unknown while that name
\* was registered as a tool
C20_ToolNameUnknownAsPrompt ==
  \E r \in ReqIds :
     /\ reqs[r].kind = "get_prompt"
     /\ reqs[r].found = "miss"
     /\ \E w \in reqs[r].want : w.d.name = reqs[r].name
\* C21: every name that was ever registered is still in its registry, and
\* stays resolvable: no call-tool or get-prompt lookup is refused for a
\* name that its registry held at that moment.
C21_RegisteredStaysResolvable ==
  /\ DOMAIN lastReg["tool"] \subseteq DOMAIN tools
  /\ DOMAIN lastReg["prompt"] \subseteq DOMAIN prompts
  /\ \A r \in ReqIds :
        reqs[r].kind \in {"call_tool", "get_prompt"} /\ reqs[r].found = "poisoned" =>
           \A w \in reqs[r].want : w.d.name # reqs[r].name

\* C21, the part about the entries: no step removes a name from a
\* registry, and the entry of a name changes only in the step that
\* completes a registration of that name in that registry.
C21_EntriesNeverRemoved ==
  [][/\ DOMAIN tools \subseteq DOMAIN tools'
     /\ DOMAIN prompts \subseteq DOMAIN prompts'
     /\ \A n \in DOMAIN tools :
           tools'[n] # tools[n] =>
              host.pc = "lock" /\ host.kind = "tool" /\ host.name = n /\ host'.pc = "idle"
     /\ \A n \in DOMAIN prompts :
           prompts'[n] # prompts[n] =>
              host.pc = "lock" /\ host.kind = "prompt" /\ host.name = n /\ host'.pc = "idle"]_vars
\* C22: stop() changes nothing but the shutdown flag, which it sets to true,
\* and returns "Ok"; it can be called at every position of the serve loop
\* and of the requests without waiting for them, and a second call leaves
\* the state as the first call left it.
C22_StopOnlySetsFlag ==
  /\ hist.stopRet \in {"none", "Ok"}
  /\ hist.stopRet = "Ok" => flag
  /\ GvlFree => ENABLED StopCall
  /\ ~ ENABLED (StopCall /\ <<tools, prompts, toolsLock, promptsLock, gvl, host, left, lastReg,
                                reqs, caps, life>>' # <<tools, prompts, toolsLock, promptsLock, gvl,
                                                        host, left, lastReg, reqs, caps, life>>)
  /\ hist.stopRet = "Ok" => ~ ENABLED (StopCall /\ vars' # vars)

\* C22 happens: stop() has returned "Ok" while the serve loop is still
\* running and a request is inside its handler.
C22_StoppedWhileServing ==
  /\ life.pc = "serving"
  /\ hist.stopRet = "Ok"
  /\ flag
  /\ \E r \in ReqIds : reqs[r].pc = "invoke"
\* C23: registration and dispatch never wait on each other: there is no
\* state where the host thread holds the host lock and waits for a
\* registry lock whose owner is a request that needs the host lock to go on.
C23_RegistrationAlwaysCompletes ==
  \A r \in ReqIds :
     ~ /\ host.pc = "lock"
       /\ gvl = HostThread
       /\ LockOf(host.kind).owner = ReqThread(r)
       /\ reqs[r].pc \in {"marshal_args", "invoke", "marshal_result"}
\* C24: a stop() made after start() was entered is not lost: until that
\* start() has returned the flag stays set, the reset of start() never
\* follows the stop, and the system can always take a further step.
C24_StopAfterEntryNotLost ==
  life.pc # "idle" /\ hist.stopSinceEntry =>
     /\ flag
     /\ life.pc \in {"serving", "reacquire"}
     /\ ENABLED Next

\* C24, the part about the reset: a stop() made after start() was entered
\* finds the reset of that start() already done, and its flag is kept until
\* that start() has returned.
C24_ResetNeverFollowsStop ==
  life.pc # "idle" /\ hist.stopSinceEntry =>
     /\ flag
     /\ life.pc \in {"serving", "reacquire"}
\* C25: a handler invocation that ends in a panic leaves the lock of its
\* registry unpoisoned, so that later requests and registrations on that
\* registry are not refused.
C25_PanicDoesNotPoison ==
  \A r \in ReqIds :
     reqs[r].pc = "panicked" =>
        /\ ~ LockOf(RegOf(reqs[r].kind)).poisoned
        /\ \A s \in ReqIds : reqs[s].found # "poisoned"
        /\ host.res \notin {ToolsPoisonedMsg, PromptsPoisonedMsg}
====
